---- MODULE Spec2Model ----
(***************************************************************************)
(* A model of package dbq: the transaction wrapper of tx.go (TxProvider,   *)
(* Tx, FromCtxOr) and the generic nullable value of null.go (Null[T]).     *)
(*                                                                         *)
(* TxSpec runs TxWithOpts calls, nested up to MaxDepth, against a          *)
(* connector and a driver whose results are nondeterministic.  NullSpec    *)
(* runs the operations of one Null[T] instance for each modelled kind T.   *)
(***************************************************************************)
EXTENDS Integers, Sequences, FiniteSets, TLC

VARIABLES
    stack,      \* active TxWithOpts frames, innermost last
    calls,      \* history of the TxWithOpts calls made since the last
                \* top-level call, by call number
    ncalls,     \* TxWithOpts calls started since the last top-level call
    ctxErr,     \* ctx.Err() of the request context every call derives from
    resolved,   \* the last FromCtxOr lookup: its context, its call, its result
    T,          \* the type argument of the Null[T] instance
    n,          \* the Null[T] instance: [Val, Valid]
    last,       \* the last operation on n: its name, its error, its result
    wire        \* the last MarshalJSON: the instance encoded, the bytes, the error

txvars == <<stack, calls, ncalls, ctxErr, resolved>>

nullvars == <<T, n, last, wire>>

vars == <<stack, calls, ncalls, ctxErr, resolved, T, n, last, wire>>

(***************************************************************************)
(* Bounds of the model.                                                    *)
(***************************************************************************)
MaxCalls == 2

MaxDepth == 2

MaxStmts == 1

\* the longest string value of a Null[string]
MaxStrLen == 1

(***************************************************************************)
(* Errors.  NoErr is Go's nil error.                                       *)
(***************************************************************************)
NoErr == "nil"

Canceled == "context.Canceled"

\* what Connector.BeginTx may return as its error
BeginErrs == {"ErrBegin"}

\* what a statement of the unit of work may fail with on its own
ExecErrs == {"ErrExec"}

\* what the unit of work may return as an error of its own
FnErrs == {"ErrFn"}

\* what sql.Tx.Commit / sql.Tx.Rollback may return as an error
FinalizeErrs == {"ErrTxDone"}

(***************************************************************************)
(* Contexts.  A context is the chain of its WithValue bindings, outermost  *)
(* first; context.Background() is the empty chain.  Every context of the   *)
(* model derives from one request context, whose Err() is ctxErr.          *)
(***************************************************************************)
TxKey == "txKeyType{}"

DataSourceKey == "CtxDataSourceKey{}"

Background == <<>>

WithValue(ctx, key, val) == Append(ctx, [key |-> key, val |-> val])

\* the plain connection a caller passes to FromCtxOr as its fallback
DB == [kind |-> "db", id |-> 0]

\* Access(tx) of the transaction begun by call c
TxHandle(c) == [kind |-> "tx", id |-> c]

\* a value that is no Access (the data source name)
DataSource == [kind |-> "string", id |-> 0]

NilValue == [kind |-> "nil", id |-> 0]

\* a lookup that answers with the outermost binding of the key
RECURSIVE CtxValueOutermost(_, _)
CtxValueOutermost(ctx, key) ==
    IF ctx = <<>> THEN NilValue
    ELSE IF Head(ctx).key = key THEN Head(ctx).val
    ELSE CtxValueOutermost(Tail(ctx), key)

\* ctx.Value(key): the innermost binding of key, nil when there is none
RECURSIVE CtxValue(_, _)
CtxValue(ctx, key) ==
    IF ctx = <<>> THEN NilValue
    ELSE IF ctx[Len(ctx)].key = key THEN ctx[Len(ctx)].val
    ELSE CtxValue(SubSeq(ctx, 1, Len(ctx) - 1), key)

\* value.(Access) succeeds
IsAccess(v) == v.kind \in {"tx", "db"}

\* tx.go:128-134
FromCtxOr(ctx, data) ==
    LET value == CtxValue(ctx, TxKey)
    IN  IF IsAccess(value) THEN value ELSE data

\* the contexts a top-level caller passes
RootCtxs == {Background, WithValue(Background, DataSourceKey, DataSource)}

(***************************************************************************)
(* TxWithOpts.  A frame is one activation:                                 *)
(*   id        the call number                                             *)
(*   ctx       the ctx parameter                                           *)
(*   txctx     tx.Context after AcquireWithOpts                            *)
(*   err       the local variable err                                      *)
(*   ret       the (unnamed) result slot, written by `return`              *)
(*   pc        "acquire" | "fn" | "defer" | "exit"                         *)
(*   panicking a panic is unwinding through the frame                      *)
(*   stmts     statements the unit of work has executed                    *)
(*   lastErr   the error of the unit of work's last statement or call      *)
(***************************************************************************)
NewFrame(c, ctx) ==
    [id |-> c, ctx |-> ctx, txctx |-> <<>>, err |-> NoErr, ret |-> NoErr,
     pc |-> "acquire", panicking |-> FALSE, stmts |-> 0, lastErr |-> NoErr]

NewCall ==
    [status |-> "none", tx |-> "Unopened", commits |-> 0,
     rollbacks |-> 0, beginErr |-> "none", fnInvoked |-> FALSE,
     fnOutcome |-> "none", fnErr |-> "none", recovered |-> FALSE,
     finErr |-> "none", ret |-> "none", canceledInFn |-> FALSE,
     stmtAfterCancel |-> "none"]

Top == stack[Len(stack)]

SetTop(f) == [stack EXCEPT ![Len(stack)] = f]

NoLookup == [ctx |-> Background, call |-> 0, got |-> NilValue]

\* the Null[int16] that stays idle beside the provider
IdleNull == [Val |-> 0, Valid |-> FALSE]

IdleOp == [op |-> "var", in |-> "-", err |-> NoErr, out |-> "-"]

IdleWire == [set |-> FALSE, src |-> IdleNull, data |-> <<>>, err |-> NoErr]

\* NewTxProvider: no call made yet.
TxInit ==
    /\ stack = <<>>
    /\ calls = [c \in 1..MaxCalls |-> NewCall]
    /\ ncalls = 0
    /\ ctxErr = NoErr
    /\ resolved = NoLookup
    /\ T = "int16"
    /\ n = IdleNull
    /\ last = IdleOp
    /\ wire = IdleWire

\* A caller outside any transaction calls TxWithOpts (or Tx) with a context.
\* The history starts afresh with this call as call 1.
TxCall ==
    /\ stack = <<>>
    /\ \E ctx \in RootCtxs : stack' = <<NewFrame(1, ctx)>>
    /\ calls' = [c \in 1..MaxCalls |->
                    IF c = 1 THEN [NewCall EXCEPT !.status = "running"] ELSE NewCall]
    /\ ncalls' = 1
    /\ resolved' = NoLookup
    /\ UNCHANGED <<ctxErr, nullvars>>

\* The unit of work calls TxWithOpts itself, with the transaction as its
\* context or with the context it was itself called with.
FnNestedCall ==
    /\ stack # <<>>
    /\ Top.pc = "fn"
    /\ Len(stack) < MaxDepth
    /\ ncalls < MaxCalls
    /\ \E ctx \in {Top.txctx, Top.ctx} :
        /\ stack' = Append(stack, NewFrame(ncalls + 1, ctx))
        /\ calls' = [calls EXCEPT ![ncalls + 1].status = "running"]
    /\ ncalls' = ncalls + 1
    /\ UNCHANGED <<ctxErr, resolved, nullvars>>

\* a TxWithOpts that goes on to the unit of work whatever BeginTx returned
AcquireFailedExitsNot(e) == FALSE

\* tx.go:93-95: a failed AcquireWithOpts returns at once
AcquireFailedExits(e) == e # NoErr

\* AcquireWithOpts and the check of its error.
Acquire ==
    /\ stack # <<>>
    /\ Top.pc = "acquire"
    /\ \E e \in {NoErr} \cup BeginErrs :
        IF AcquireFailedExits(e)
        THEN /\ stack' = SetTop([Top EXCEPT !.err = e, !.ret = e, !.pc = "exit"])
             /\ calls' = [calls EXCEPT ![Top.id].beginErr = e]
        ELSE /\ stack' = SetTop([Top EXCEPT
                            !.err = e,
                            !.txctx = WithValue(Top.ctx, TxKey, TxHandle(Top.id)),
                            !.pc = "fn"])
             /\ calls' = [calls EXCEPT ![Top.id].beginErr = e,
                                       ![Top.id].tx = IF e = NoErr THEN "Open" ELSE @,
                                       ![Top.id].fnInvoked = TRUE]
    /\ UNCHANGED <<ncalls, ctxErr, resolved, nullvars>>

\* Tx.Exec / Query / Prepare: a statement on the transaction's context.  The
\* step is the statement returning: one that returns after the context was
\* canceled, in flight at that moment or begun later, returns ctx.Err().  The
\* history keeps the error of the call's last such statement.
FnExec ==
    /\ stack # <<>>
    /\ Top.pc = "fn"
    /\ Top.stmts < MaxStmts
    /\ \E e \in (IF ctxErr # NoErr THEN {ctxErr} ELSE {NoErr} \cup ExecErrs) :
        /\ stack' = SetTop([Top EXCEPT !.stmts = @ + 1, !.lastErr = e])
        /\ calls' = IF ctxErr # NoErr
                     THEN [calls EXCEPT ![Top.id].stmtAfterCancel = e]
                     ELSE calls
    /\ UNCHANGED <<ncalls, ctxErr, resolved, nullvars>>

\* The unit of work resolves its executor from the transaction's context
\* or from a context derived from it.
FnResolve ==
    /\ stack # <<>>
    /\ Top.pc = "fn"
    /\ \E ctx \in {Top.txctx, WithValue(Top.txctx, DataSourceKey, DataSource)} :
        resolved' = [ctx |-> ctx, call |-> Top.id, got |-> FromCtxOr(ctx, DB)]
    /\ UNCHANGED <<stack, calls, ncalls, ctxErr, nullvars>>

\* Code outside any transaction resolves its executor.
Resolve ==
    /\ stack = <<>>
    /\ \E ctx \in RootCtxs :
        resolved' = [ctx |-> ctx, call |-> 0, got |-> FromCtxOr(ctx, DB)]
    /\ UNCHANGED <<stack, calls, ncalls, ctxErr, nullvars>>

\* err = fn(tx); return err -- the unit of work returns nil, an error of its
\* own or the error of its last statement; the result slot is written and
\* the deferred function runs next.
FnReturn ==
    /\ stack # <<>>
    /\ Top.pc = "fn"
    /\ \E e \in {NoErr, Top.lastErr} \cup FnErrs :
        /\ stack' = SetTop([Top EXCEPT !.err = e, !.ret = e, !.pc = "defer"])
        /\ calls' = [calls EXCEPT
                        ![Top.id].fnOutcome = IF e = NoErr THEN "nil" ELSE "err",
                        ![Top.id].fnErr = e]
    /\ UNCHANGED <<ncalls, ctxErr, resolved, nullvars>>

\* The unit of work panics: err is never assigned, nothing is returned, the
\* deferred function runs next.
FnPanic ==
    /\ stack # <<>>
    /\ Top.pc = "fn"
    /\ stack' = SetTop([Top EXCEPT !.panicking = TRUE, !.pc = "defer"])
    /\ calls' = [calls EXCEPT ![Top.id].fnOutcome = "panic"]
    /\ UNCHANGED <<ncalls, ctxErr, resolved, nullvars>>

\* tx.go:98: recover() stops a panic
Recovers(panicking) == panicking

\* a deferred function that always rolls back
CommitsNever(err) == FALSE

\* a deferred function that always commits
CommitsAlways(err) == TRUE

\* a deferred function that takes a cancellation for a success
CommitsOnCanceled(err) == err \in {NoErr, Canceled}

\* a deferred function that returns right after logging a recovered panic
FinalizesUnlessPanicking(err, panicking) == ~panicking

\* tx.go:101: the deferred function commits when err is nil
Commits(err) == err = NoErr

\* tx.go:101-105: the deferred function always finalizes
Finalizes(err, panicking) == TRUE

\* The deferred function of TxWithOpts: recover, Commit or Rollback, log.
\* It assigns the local err; the result slot is not touched.  The two log
\* lines write no state.  The history's tx field records which finalizing
\* call was made on the handle, whatever that call returned.
Deferred ==
    /\ stack # <<>>
    /\ Top.pc = "defer"
    /\ LET f == Top
           c == calls[f.id]
           rec == Recovers(f.panicking)
       IN  IF Finalizes(f.err, f.panicking)
           THEN \E e \in {NoErr} \cup FinalizeErrs :
               /\ stack' = SetTop([f EXCEPT !.err = e,
                                            !.panicking = f.panicking /\ ~rec,
                                            !.pc = "exit"])
               /\ calls' = [calls EXCEPT ![f.id] =
                    [c EXCEPT
                        !.recovered = rec,
                        !.commits = IF Commits(f.err) THEN @ + 1 ELSE @,
                        !.rollbacks = IF Commits(f.err) THEN @ ELSE @ + 1,
                        !.tx = IF Commits(f.err) THEN "Committed" ELSE "RolledBack",
                        !.finErr = e]]
           ELSE /\ stack' = SetTop([f EXCEPT !.panicking = f.panicking /\ ~rec,
                                             !.pc = "exit"])
                /\ calls' = [calls EXCEPT ![f.id].recovered = rec]
    /\ UNCHANGED <<ncalls, ctxErr, resolved, nullvars>>

\* TxWithOpts leaves its frame: it returns the result slot to its caller,
\* or a panic that was not recovered goes on unwinding into the caller.
TxExit ==
    /\ stack # <<>>
    /\ Top.pc = "exit"
    /\ LET f == Top
           rest == SubSeq(stack, 1, Len(stack) - 1)
           done == [calls EXCEPT
                        ![f.id].status = IF f.panicking THEN "panicked" ELSE "returned",
                        ![f.id].ret = IF f.panicking THEN "none" ELSE f.ret]
       IN  /\ calls' =
                IF rest # <<>> /\ f.panicking
                THEN [done EXCEPT ![rest[Len(rest)].id].fnOutcome = "panic"]
                ELSE done
           /\ stack' =
                IF rest = <<>> THEN rest
                ELSE IF f.panicking
                THEN [rest EXCEPT ![Len(rest)].panicking = TRUE,
                                  ![Len(rest)].pc = "defer"]
                ELSE [rest EXCEPT ![Len(rest)].lastErr = f.ret]
    /\ UNCHANGED <<ncalls, ctxErr, resolved, nullvars>>

\* the calls whose unit of work is running
RunningFn == {stack[i].id : i \in {j \in 1..Len(stack) : stack[j].pc = "fn"}}

\* The request context is canceled or its deadline passes.  The history
\* marks the calls whose unit of work was running at that moment.
Cancel ==
    /\ ctxErr = NoErr
    /\ ctxErr' = Canceled
    /\ calls' = [c \in 1..MaxCalls |->
                    IF c \in RunningFn THEN [calls[c] EXCEPT !.canceledInFn = TRUE]
                    ELSE calls[c]]
    /\ UNCHANGED <<stack, ncalls, resolved, nullvars>>

TxNext ==
    \/ TxCall
    \/ FnNestedCall
    \/ Acquire
    \/ FnExec
    \/ FnResolve
    \/ Resolve
    \/ FnReturn
    \/ FnPanic
    \/ Deferred
    \/ TxExit
    \/ Cancel

(***************************************************************************)
(* Null[T].  The modelled type arguments are byte, int16, bool, string and *)
(* float64; int, int32 and int64 run the code of int16 with a wider range, *)
(* and time.Time is not modelled.                                          *)
(***************************************************************************)
Kinds == {"byte", "int16", "bool", "string", "float64"}

IntKinds == {"byte", "int16"}

MaxUint8 == 255

MinInt16 == -32768

MaxInt16 == 32767

MinOf(t) == IF t = "byte" THEN 0 ELSE MinInt16

MaxOf(t) == IF t = "byte" THEN MaxUint8 ELSE MaxInt16

\* A float64 is finite (t tenths), an infinity (t its sign) or a NaN.
Fin(t) == [cls |-> "fin", t |-> t]

NaN == [cls |-> "nan", t |-> 0]

PosInf == [cls |-> "inf", t |-> 1]

\* A string is a sequence of runes and bytes: "a", the double quote and
\* "xFF", a byte that is not valid UTF-8; decoding adds the rune U+FFFD.
Quote == "\""

Backslash == "\\"

RuneError == "uFFFD"

BadByte == "xFF"

StrChars == {"a", Quote, BadByte}

RECURSIVE SeqsUpTo(_, _)
SeqsUpTo(S, k) ==
    IF k = 0 THEN {<<>>}
    ELSE LET shorter == SeqsUpTo(S, k - 1)
         IN  shorter \cup {Append(q, c) : q \in shorter, c \in S}

\* the values of T the model draws from
Vals(t) ==
    CASE t = "byte" -> {0, 7, MaxUint8}
      [] t = "int16" -> {MinInt16, 0, 12345, MaxInt16}
      [] t = "bool" -> {FALSE, TRUE}
      [] t = "string" -> SeqsUpTo(StrChars, MaxStrLen)
      [] t = "float64" -> {Fin(0), Fin(15), Fin(-20), NaN, PosInf}

\* var zero T
Zero(t) ==
    CASE t \in IntKinds -> 0
      [] t = "bool" -> FALSE
      [] t = "string" -> <<>>
      [] t = "float64" -> Fin(0)

\* Go's == on two values of T: a NaN equals nothing
GoEq(t, a, b) ==
    IF t = "float64" THEN a.cls # "nan" /\ b.cls # "nan" /\ a = b ELSE a = b

(***************************************************************************)
(* JSON text is a sequence of characters.  encoding/json is modelled on    *)
(* the texts the model feeds it: null, true, false, numbers without an     *)
(* exponent and with at most one fraction digit where a float64 is         *)
(* decoded, strings over StrChars, {} and [].                              *)
(***************************************************************************)
Digits == <<"0", "1", "2", "3", "4", "5", "6", "7", "8", "9">>

DigitSet == {Digits[i] : i \in 1..10}

DigitVal(c) == (CHOOSE i \in 1..10 : Digits[i] = c) - 1

\* strconv.FormatUint
RECURSIVE FormatNat(_)
FormatNat(k) ==
    IF k < 10 THEN <<Digits[k + 1]>>
    ELSE Append(FormatNat(k \div 10), Digits[(k % 10) + 1])

\* strconv.FormatInt
FormatInt(i) == IF i < 0 THEN <<"-">> \o FormatNat(-i) ELSE FormatNat(i)

\* the value of a sequence of digits
RECURSIVE ParseNat(_)
ParseNat(ds) ==
    IF ds = <<>> THEN 0
    ELSE 10 * ParseNat(SubSeq(ds, 1, Len(ds) - 1)) + DigitVal(ds[Len(ds)])

AllDigits(ds) == ds # <<>> /\ \A i \in 1..Len(ds) : ds[i] \in DigitSet

\* the encoder's string escapes
EscapeChar(c) ==
    CASE c = Quote -> <<Backslash, Quote>>
      [] c = Backslash -> <<Backslash, Backslash>>
      [] c = BadByte -> <<Backslash, "u", "f", "f", "f", "d">>
      [] OTHER -> <<c>>

RECURSIVE EscapeString(_)
EscapeString(str) ==
    IF str = <<>> THEN <<>>
    ELSE EscapeChar(Head(str)) \o EscapeString(Tail(str))

\* strconv.AppendFloat(b, f, 'f', -1, 64) of a finite float64
FormatFloat(f) ==
    LET mag == IF f.t < 0 THEN -f.t ELSE f.t
        whole == FormatNat(mag \div 10)
        frac == IF mag % 10 = 0 THEN <<>> ELSE <<".", Digits[(mag % 10) + 1]>>
    IN  (IF f.t < 0 THEN <<"-">> ELSE <<>>) \o whole \o frac

NoData == <<>>

\* json.Marshal of a value of T: the bytes and the error
JSONMarshal(t, v) ==
    CASE t \in IntKinds -> [data |-> FormatInt(v), err |-> NoErr]
      [] t = "bool" ->
            [data |-> IF v THEN <<"t", "r", "u", "e">> ELSE <<"f", "a", "l", "s", "e">>,
             err |-> NoErr]
      [] t = "string" ->
            [data |-> <<Quote>> \o EscapeString(v) \o <<Quote>>, err |-> NoErr]
      [] t = "float64" ->
            IF v.cls = "fin" THEN [data |-> FormatFloat(v), err |-> NoErr]
            ELSE [data |-> NoData, err |-> "json.UnsupportedValueError"]

IsSpace(c) == c = " "

RECURSIVE TrimLeft(_)
TrimLeft(d) == IF d # <<>> /\ IsSpace(Head(d)) THEN TrimLeft(Tail(d)) ELSE d

RECURSIVE TrimRight(_)
TrimRight(d) ==
    IF d # <<>> /\ IsSpace(d[Len(d)]) THEN TrimRight(SubSeq(d, 1, Len(d) - 1)) ELSE d

\* the body of a string literal, unquoted: [ok, str]
RECURSIVE Unquote(_)
Unquote(b) ==
    IF b = <<>> THEN [ok |-> TRUE, str |-> <<>>]
    ELSE IF Head(b) = Quote THEN [ok |-> FALSE, str |-> <<>>]
    ELSE IF Head(b) = Backslash
    THEN IF Len(b) >= 2 /\ b[2] \in {Quote, Backslash}
         THEN LET r == Unquote(SubSeq(b, 3, Len(b)))
              IN  [ok |-> r.ok, str |-> <<b[2]>> \o r.str]
         ELSE IF Len(b) >= 6 /\ SubSeq(b, 2, 6) = <<"u", "f", "f", "f", "d">>
         THEN LET r == Unquote(SubSeq(b, 7, Len(b)))
              IN  [ok |-> r.ok, str |-> <<RuneError>> \o r.str]
         ELSE [ok |-> FALSE, str |-> <<>>]
    ELSE LET r == Unquote(Tail(b))
         IN  [ok |-> r.ok,
              str |-> <<IF Head(b) = BadByte THEN RuneError ELSE Head(b)>> \o r.str]

\* a number literal: [ok, neg, whole, frac]
ScanNumber(d) ==
    LET neg == d # <<>> /\ Head(d) = "-"
        body == IF neg THEN Tail(d) ELSE d
        dots == {i \in 1..Len(body) : body[i] = "."}
        p == IF dots = {} THEN Len(body) + 1 ELSE CHOOSE i \in dots : TRUE
        whole == SubSeq(body, 1, p - 1)
        frac == SubSeq(body, p + 1, Len(body))
    IN  [ok |-> /\ Cardinality(dots) <= 1
                /\ AllDigits(whole)
                /\ (Len(whole) = 1 \/ Head(whole) # "0")
                /\ (dots = {} \/ AllDigits(frac)),
         neg |-> neg, whole |-> whole, frac |-> frac]

\* the scanner: the kind of JSON value a text is, "invalid" when it is none
JSONKind(data) ==
    LET d == TrimRight(TrimLeft(data))
    IN  CASE d = <<"n", "u", "l", "l">> -> "null"
          [] d \in {<<"t", "r", "u", "e">>, <<"f", "a", "l", "s", "e">>} -> "bool"
          [] d = <<"{", "}">> -> "object"
          [] d = <<"[", "]">> -> "array"
          [] Len(d) >= 2 /\ Head(d) = Quote /\ d[Len(d)] = Quote
                /\ Unquote(SubSeq(d, 2, Len(d) - 1)).ok -> "string"
          [] ScanNumber(d).ok -> "number"
          [] OTHER -> "invalid"

SyntaxError == "json.SyntaxError"

UnmarshalTypeError == "json.UnmarshalTypeError"

\* a number literal stored into a value of T: [val, err]
StoreNumber(t, cur, num) ==
    LET mag == ParseNat(num.whole)
        i == IF num.neg THEN -mag ELSE mag
        tenths == 10 * mag + (IF num.frac = <<>> THEN 0 ELSE DigitVal(Head(num.frac)))
    IN  CASE t = "byte" ->
                IF num.neg \/ num.frac # <<>> \/ mag > MaxUint8
                THEN [val |-> cur, err |-> UnmarshalTypeError]
                ELSE [val |-> mag, err |-> NoErr]
          [] t = "int16" ->
                IF num.frac # <<>> \/ i < MinInt16 \/ i > MaxInt16
                THEN [val |-> cur, err |-> UnmarshalTypeError]
                ELSE [val |-> i, err |-> NoErr]
          [] t = "float64" ->
                [val |-> Fin(IF num.neg THEN -tenths ELSE tenths), err |-> NoErr]
          [] OTHER -> [val |-> cur, err |-> UnmarshalTypeError]

\* json.Unmarshal(data, &cur) for cur of type T: the new value and the error.
\* A null literal leaves a scalar as it is, without an error.
JSONUnmarshal(t, cur, data) ==
    LET d == TrimRight(TrimLeft(data))
        kind == JSONKind(data)
    IN  CASE kind = "invalid" -> [val |-> cur, err |-> SyntaxError]
          [] kind = "null" -> [val |-> cur, err |-> NoErr]
          [] kind = "bool" ->
                IF t = "bool" THEN [val |-> d = <<"t", "r", "u", "e">>, err |-> NoErr]
                ELSE [val |-> cur, err |-> UnmarshalTypeError]
          [] kind = "string" ->
                IF t = "string"
                THEN [val |-> Unquote(SubSeq(d, 2, Len(d) - 1)).str, err |-> NoErr]
                ELSE [val |-> cur, err |-> UnmarshalTypeError]
          [] kind = "number" -> StoreNumber(t, cur, ScanNumber(d))
          [] OTHER -> [val |-> cur, err |-> UnmarshalTypeError]

(***************************************************************************)
(* The operations of Null[T].  An instance is [Val, Valid]; a pointer is   *)
(* the empty sequence (nil) or the one value it points to; a driver value  *)
(* is [dt, v] with dt its dynamic type.                                    *)
(***************************************************************************)
nullBytes == <<"n", "u", "l", "l">>

NilPtr == <<>>

PtrTo(v) == <<v>>

DriverNil == [dt |-> "nil", v |-> 0]

New(val, valid) == [Val |-> val, Valid |-> valid]

FromValue(v) == New(v, TRUE)

FromPtr(t, p) == IF p = NilPtr THEN New(Zero(t), FALSE) ELSE New(p[1], TRUE)

ConvertErr == "converting driver.Value: unsupported conversion"

\* convertAssign(&dest, src), for a src that is not a T: [val, err]
ConvertAssign(t, cur, src) ==
    CASE src.dt = "int64" /\ t \in IntKinds ->
            IF src.v >= MinOf(t) /\ src.v <= MaxOf(t)
            THEN [val |-> src.v, err |-> NoErr]
            ELSE [val |-> cur, err |-> ConvertErr]
      [] src.dt = "int64" /\ t = "float64" -> [val |-> Fin(10 * src.v), err |-> NoErr]
      [] src.dt = "bytes" /\ t = "string" -> [val |-> src.v, err |-> NoErr]
      [] OTHER -> [val |-> cur, err |-> ConvertErr]

\* a Scan that leaves Valid as it was when the conversion fails
ScanLeavesValid(t, cur, value) ==
    IF value.dt = "nil" THEN [n |-> New(Zero(t), FALSE), err |-> NoErr]
    ELSE IF value.dt = t THEN [n |-> New(value.v, TRUE), err |-> NoErr]
    ELSE LET r == ConvertAssign(t, Zero(t), value)
         IN  [n |-> New(r.val, IF r.err = NoErr THEN TRUE ELSE cur.Valid),
              err |-> r.err]

\* null.go:35-54.  The failed assertion value.(T) leaves the zero value in
\* Val before convertAssign runs.
Scan(t, cur, value) ==
    IF value.dt = "nil" THEN [n |-> New(Zero(t), FALSE), err |-> NoErr]
    ELSE IF value.dt = t THEN [n |-> New(value.v, TRUE), err |-> NoErr]
    ELSE LET r == ConvertAssign(t, Zero(t), value)
         IN  [n |-> New(r.val, r.err = NoErr), err |-> r.err]

\* a ValueOrZero that hands out Val whatever Valid says
ValueOrZeroRaw(t, cur) == cur.Val

\* null.go:57-62
Value(t, cur) ==
    IF ~cur.Valid THEN [value |-> DriverNil, err |-> NoErr]
    ELSE [value |-> [dt |-> t, v |-> cur.Val], err |-> NoErr]

\* null.go:79-85
ValueOrZero(t, cur) == IF ~cur.Valid THEN Zero(t) ELSE cur.Val

\* fmt.Errorf("null: couldn't unmarshal JSON: %w", err)
WrapErr(e) ==
    CASE e = SyntaxError -> "null: couldn't unmarshal JSON: json.SyntaxError"
      [] e = UnmarshalTypeError -> "null: couldn't unmarshal JSON: json.UnmarshalTypeError"

\* an UnmarshalJSON that forgets to mark the decoded value valid
UnmarshalJSONKeepsValid(t, cur, data) ==
    IF data = nullBytes THEN [n |-> New(cur.Val, FALSE), err |-> NoErr]
    ELSE LET r == JSONUnmarshal(t, cur.Val, data)
         IN  IF r.err # NoErr
             THEN [n |-> New(r.val, cur.Valid), err |-> WrapErr(r.err)]
             ELSE [n |-> New(r.val, cur.Valid), err |-> NoErr]

\* an UnmarshalJSON that resets Val on the null literal, as Scan does on nil
UnmarshalJSONResetsVal(t, cur, data) ==
    IF data = nullBytes THEN [n |-> New(Zero(t), FALSE), err |-> NoErr]
    ELSE LET r == JSONUnmarshal(t, cur.Val, data)
         IN  IF r.err # NoErr
             THEN [n |-> New(r.val, cur.Valid), err |-> WrapErr(r.err)]
             ELSE [n |-> New(r.val, TRUE), err |-> NoErr]

\* null.go:90-102.  On an error of json.Unmarshal the function returns
\* without writing Valid.
UnmarshalJSON(t, cur, data) ==
    IF data = nullBytes THEN [n |-> New(cur.Val, FALSE), err |-> NoErr]
    ELSE LET r == JSONUnmarshal(t, cur.Val, data)
         IN  IF r.err # NoErr
             THEN [n |-> New(r.val, cur.Valid), err |-> WrapErr(r.err)]
             ELSE [n |-> New(r.val, TRUE), err |-> NoErr]

\* null.go:106-111
MarshalJSON(t, cur) ==
    IF ~cur.Valid THEN [data |-> nullBytes, err |-> NoErr]
    ELSE JSONMarshal(t, cur.Val)

\* null.go:114-117
SetValid(cur, v) == New(v, TRUE)

\* null.go:120-125
Ptr(cur) == IF ~cur.Valid THEN NilPtr ELSE PtrTo(cur.Val)

\* null.go:129-131
IsZero(cur) == ~cur.Valid

\* an Equal that compares Val whatever the flags say
EqualComparesVal(t, a, b) == a.Valid = b.Valid /\ GoEq(t, a.Val, b.Val)

\* null.go:134-136
Equal(t, a, b) == a.Valid = b.Valid /\ (~a.Valid \/ GoEq(t, a.Val, b.Val))

\* every instance over the values of the model
Instances(t) == {New(v, b) : v \in Vals(t), b \in BOOLEAN}

\* the dynamic types of the driver values Scan is given: nil, T itself, and
\* types that are not T
DriverTypes(t) == {"nil", t, "int64", "bytes", "time.Time"}

\* the driver values of one dynamic type
DriverVals(t, dt) ==
    CASE dt = "nil" -> {DriverNil}
      [] dt = t -> {[dt |-> t, v |-> x] : x \in Vals(t)}
      [] dt = "int64" -> {[dt |-> "int64", v |-> 7], [dt |-> "int64", v |-> 70000]}
      [] dt = "bytes" -> {[dt |-> "bytes", v |-> <<"a">>]}
      [] dt = "time.Time" -> {[dt |-> "time.Time", v |-> 0]}

\* the texts UnmarshalJSON is given, besides the output of MarshalJSON
Texts ==
    {nullBytes, <<" ", "n", "u", "l", "l">>, <<":", ")">>, <<"t", "r", "u", "e">>,
     <<"1", "2", "3", "4", "5">>, <<"1", ".", "5">>, <<"-", "1">>,
     <<"3", "2", "7", "6", "7">>, <<"3", "2", "7", "6", "8">>,
     <<"2", "5", "5">>, <<"2", "5", "6">>,
     <<Quote, Quote>>, <<Quote, "a", Quote>>, <<"{", "}">>}

Op(name, in, err, out) == [op |-> name, in |-> in, err |-> err, out |-> out]

None == "-"

NoWire(t) == [set |-> FALSE, src |-> New(Zero(t), FALSE), data |-> NoData, err |-> NoErr]

\* var n Null[T], beside a provider that stays idle
NullInit ==
    /\ T \in Kinds
    /\ n = New(Zero(T), FALSE)
    /\ last = Op("var", None, NoErr, None)
    /\ wire = NoWire(T)
    /\ stack = <<>>
    /\ calls = [c \in 1..MaxCalls |-> NewCall]
    /\ ncalls = 0
    /\ ctxErr = NoErr
    /\ resolved = NoLookup

DoNew ==
    /\ \E v \in Vals(T), valid \in BOOLEAN :
        /\ n' = New(v, valid)
        /\ last' = Op("New", None, NoErr, None)
    /\ UNCHANGED <<T, wire, txvars>>

DoFromValue ==
    /\ \E v \in Vals(T) :
        /\ n' = FromValue(v)
        /\ last' = Op("FromValue", None, NoErr, None)
    /\ UNCHANGED <<T, wire, txvars>>

DoFromPtr ==
    /\ \E p \in {NilPtr} \cup {PtrTo(v) : v \in Vals(T)} :
        /\ n' = FromPtr(T, p)
        /\ last' = Op("FromPtr", p, NoErr, None)
    /\ UNCHANGED <<T, wire, txvars>>

DoSetValid ==
    /\ \E v \in Vals(T) :
        /\ n' = SetValid(n, v)
        /\ last' = Op("SetValid", None, NoErr, None)
    /\ UNCHANGED <<T, wire, txvars>>

DoScan ==
    /\ \E dt \in DriverTypes(T) : \E value \in DriverVals(T, dt) :
        LET r == Scan(T, n, value)
        IN  /\ n' = r.n
            /\ last' = Op("Scan", value, r.err, None)
    /\ UNCHANGED <<T, wire, txvars>>

DoUnmarshalJSON ==
    /\ \E data \in Texts \cup (IF wire.set /\ wire.err = NoErr THEN {wire.data} ELSE {}) :
        LET r == UnmarshalJSON(T, n, data)
        IN  /\ n' = r.n
            /\ last' = Op("UnmarshalJSON", data, r.err, None)
    /\ UNCHANGED <<T, wire, txvars>>

DoMarshalJSON ==
    /\ LET r == MarshalJSON(T, n)
       IN  /\ wire' = [set |-> TRUE, src |-> n, data |-> r.data, err |-> r.err]
           /\ last' = Op("MarshalJSON", None, r.err, r.data)
    /\ UNCHANGED <<T, n, txvars>>

DoValue ==
    /\ LET r == Value(T, n)
       IN  last' = Op("Value", None, r.err, r.value)
    /\ UNCHANGED <<T, n, wire, txvars>>

DoValueOrZero ==
    /\ last' = Op("ValueOrZero", None, NoErr, ValueOrZero(T, n))
    /\ UNCHANGED <<T, n, wire, txvars>>

DoPtr ==
    /\ last' = Op("Ptr", None, NoErr, Ptr(n))
    /\ UNCHANGED <<T, n, wire, txvars>>

DoIsZero ==
    /\ last' = Op("IsZero", None, NoErr, IsZero(n))
    /\ UNCHANGED <<T, n, wire, txvars>>

DoEqual ==
    /\ \E other \in Instances(T) :
        last' = Op("Equal", other, NoErr, Equal(T, n, other))
    /\ UNCHANGED <<T, n, wire, txvars>>

NullNext ==
    \/ DoNew
    \/ DoFromValue
    \/ DoFromPtr
    \/ DoSetValid
    \/ DoScan
    \/ DoUnmarshalJSON
    \/ DoMarshalJSON
    \/ DoValue
    \/ DoValueOrZero
    \/ DoPtr
    \/ DoIsZero
    \/ DoEqual

(***************************************************************************)
(* The specifications: TxSpec runs the transaction wrapper beside an idle  *)
(* Null[int16], NullSpec runs a Null[T] beside an idle provider.           *)
(***************************************************************************)
TxSpec == TxInit /\ [][TxNext]_vars

NullSpec == NullInit /\ [][NullNext]_vars

(***************************************************************************)
(* Claims about Null[T], checked under NullSpec.                           *)
(***************************************************************************)

\* C7: whenever UnmarshalJSON returns an error, the instance is left with
\* Valid == false, also when it was valid before the call.
C7_DecodeErrorInvalidates ==
    (last.op = "UnmarshalJSON" /\ last.err # NoErr) => ~n.Valid

\* the last operation decoded the bytes the last MarshalJSON produced
DecodedWire ==
    /\ wire.set
    /\ wire.err = NoErr
    /\ last.op = "UnmarshalJSON"
    /\ last.in = wire.data

\* json.Marshal encodes the value without loss: a finite float64, a string
\* of valid UTF-8, any integer or bool
Lossless(t, v) ==
    CASE t = "float64" -> v.cls = "fin"
      [] t = "string" -> \A i \in 1..Len(v) : v[i] # BadByte
      [] OTHER -> TRUE

\* C9: for every valid Null[T] v, MarshalJSON succeeds and UnmarshalJSON on
\* its output succeeds and yields an instance Equal to v.
C9_RoundTripAll ==
    /\ (wire.set /\ wire.src.Valid) => wire.err = NoErr
    /\ (DecodedWire /\ wire.src.Valid) =>
            (last.err = NoErr /\ Equal(T, n, wire.src))

\* C9, amended: for every valid Null[T] v whose Val json.Marshal encodes
\* without loss, MarshalJSON succeeds and UnmarshalJSON on its output
\* succeeds and yields an instance Equal to v.
C9_RoundTripLossless ==
    /\ (wire.set /\ wire.src.Valid /\ Lossless(T, wire.src.Val)) => wire.err = NoErr
    /\ (DecodedWire /\ wire.src.Valid /\ Lossless(T, wire.src.Val)) =>
            (last.err = NoErr /\ Equal(T, n, wire.src))

C9_Witness ==
    /\ DecodedWire
    /\ T = "string"
    /\ wire.src = New(<<Quote>>, TRUE)
    /\ n = New(<<Quote>>, TRUE)

\* C10: in every reachable state with Valid == false the stored Val is not
\* exposed, whatever it holds: MarshalJSON yields the null literal, Value
\* the driver's nil, ValueOrZero the zero value of T and Ptr nil -- as
\* computed on the state and as returned by the last call.
C10_InvalidHidesVal ==
    ~n.Valid =>
        /\ MarshalJSON(T, n) = [data |-> nullBytes, err |-> NoErr]
        /\ Value(T, n).value.dt = "nil" /\ Value(T, n).err = NoErr
        /\ ValueOrZero(T, n) = Zero(T)
        /\ Ptr(n) = NilPtr
        /\ last.op = "MarshalJSON" => (last.out = nullBytes /\ last.err = NoErr)
        /\ last.op = "Value" => (last.out.dt = "nil" /\ last.err = NoErr)
        /\ last.op = "ValueOrZero" => last.out = Zero(T)
        /\ last.op = "Ptr" => last.out = NilPtr

C10_Witness ==
    /\ ~n.Valid
    /\ n.Val # Zero(T)
    /\ last.op = "ValueOrZero"
    /\ last.out = Zero(T)

\* C11: Equal(a, b) is true iff both are invalid, or both are valid with Val
\* equal under the == of T; two invalid instances are Equal even when their
\* stored Val differ, and a valid and an invalid instance are never Equal,
\* even when their Val coincide.
C11_EqualByValidity ==
    last.op = "Equal" =>
        LET a == n
            b == last.in
        IN  /\ last.out = ((~a.Valid /\ ~b.Valid)
                            \/ (a.Valid /\ b.Valid /\ GoEq(T, a.Val, b.Val)))
            /\ (~a.Valid /\ ~b.Valid) => last.out
            /\ a.Valid # b.Valid => ~last.out

C11_Witness ==
    /\ last.op = "Equal"
    /\ ~n.Valid
    /\ ~last.in.Valid
    /\ n.Val # last.in.Val
    /\ last.out

\* the driver value is neither nil, nor a T, nor convertible to T
NotConvertible(t, value) ==
    /\ value.dt \notin {"nil", t}
    /\ ConvertAssign(t, Zero(t), value).err # NoErr

\* C12: whatever the instance held before, Scan of the driver nil leaves
\* Valid == false and Val the zero value of T, without an error; Scan of a
\* value of type T leaves Valid == true and Val equal to it, without an
\* error; Scan of a value that is neither T nor convertible to T returns an
\* error and leaves Valid == false; after a Scan of a value that is not nil
\* Valid is true exactly when no error is returned.
C12_ScanOutcomes ==
    last.op = "Scan" =>
        /\ last.in.dt = "nil" => (n = New(Zero(T), FALSE) /\ last.err = NoErr)
        /\ last.in.dt = T => (n = New(last.in.v, TRUE) /\ last.err = NoErr)
        /\ NotConvertible(T, last.in) => (last.err # NoErr /\ ~n.Valid)
        /\ last.in.dt # "nil" => n.Valid = (last.err = NoErr)

C12_Witness ==
    /\ last.op = "Scan"
    /\ T = "int16"
    /\ last.in.dt = "int64"
    /\ NotConvertible(T, last.in)
    /\ last.err = ConvertErr
    /\ ~n.Valid

\* C14: a call of UnmarshalJSON with the null literal sets Valid to false,
\* returns no error and leaves Val as it was before the call, while a call
\* of Scan with the driver nil sets Valid to false and Val to the zero value
\* of T.
C14_NullLiteralKeepsVal ==
    [][/\ (last'.op = "UnmarshalJSON" /\ last'.in = nullBytes) =>
            (n' = New(n.Val, FALSE) /\ last'.err = NoErr)
       /\ (last'.op = "Scan" /\ last'.in.dt = "nil") =>
            (n' = New(Zero(T), FALSE) /\ last'.err = NoErr)]_vars

C14_Witness ==
    /\ last.op = "UnmarshalJSON"
    /\ last.in = nullBytes
    /\ last.err = NoErr
    /\ ~n.Valid
    /\ n.Val # Zero(T)
    /\ wire.set
    /\ wire.src = New(n.Val, TRUE)

(***************************************************************************)
(* Claims about TxWithOpts and FromCtxOr, checked under TxSpec.            *)
(***************************************************************************)
Finalized(r) == r.commits + r.rollbacks

\* C1: when the transaction was begun and the unit of work returns nil,
\* Commit is called on the transaction exactly once (at most once at any
\* time, once by the time TxWithOpts has returned) and Rollback never.
C1_NilCommitsOnce ==
    \A c \in 1..MaxCalls :
        calls[c].fnOutcome = "nil" =>
            /\ calls[c].rollbacks = 0
            /\ calls[c].commits <= 1
            /\ calls[c].status = "returned" => calls[c].commits = 1

C1_Witness ==
    \E c \in 1..MaxCalls :
        /\ calls[c].status = "returned"
        /\ calls[c].fnOutcome = "nil"
        /\ calls[c].commits = 1

\* C2: when the transaction was begun and the unit of work returns a non-nil
\* error, Rollback is called on the transaction exactly once and Commit
\* never.
C2_ErrorRollsBackOnce ==
    \A c \in 1..MaxCalls :
        calls[c].fnOutcome = "err" =>
            /\ calls[c].commits = 0
            /\ calls[c].rollbacks <= 1
            /\ calls[c].status = "returned" => calls[c].rollbacks = 1

C2_Witness ==
    \E c \in 1..MaxCalls :
        /\ calls[c].status = "returned"
        /\ calls[c].fnOutcome = "err"
        /\ calls[c].fnErr = "ErrFn"
        /\ calls[c].rollbacks = 1

\* C3: when the unit of work panics, the panic is recovered at the
\* TxWithOpts boundary and the transaction is rolled back, never committed.
C3_PanicRollsBack ==
    \A c \in 1..MaxCalls :
        calls[c].fnOutcome = "panic" =>
            /\ calls[c].commits = 0
            /\ calls[c].status = "returned" =>
                    calls[c].recovered /\ calls[c].rollbacks = 1

\* C4: when Commit or Rollback returns an error, TxWithOpts returns that
\* error to its caller.
C4_FinalizeErrorReturned ==
    \A c \in 1..MaxCalls :
        (calls[c].status = "returned" /\ calls[c].finErr \in FinalizeErrs) =>
            calls[c].ret = calls[c].finErr

\* C5: every transaction TxWithOpts opened is finalized exactly once,
\* however the unit of work ended: never more than one Commit or Rollback,
\* exactly one by the time TxWithOpts has left its frame, the handle then
\* Committed or RolledBack, and TxWithOpts returns (no panic escapes it).
C5_FinalizedExactlyOnce ==
    \A c \in 1..MaxCalls :
        /\ Finalized(calls[c]) <= 1
        /\ calls[c].status # "panicked"
        /\ (calls[c].status = "returned" /\ calls[c].beginErr = NoErr) =>
                /\ Finalized(calls[c]) = 1
                /\ calls[c].tx \in {"Committed", "RolledBack"}
        /\ calls[c].tx = "Open" => Finalized(calls[c]) = 0
        /\ calls[c].tx = "Committed" => calls[c].commits = 1
        /\ calls[c].tx = "RolledBack" => calls[c].rollbacks = 1

C5_Witness ==
    \E c \in 1..MaxCalls :
        /\ calls[c].status = "returned"
        /\ calls[c].fnOutcome = "panic"
        /\ calls[c].recovered
        /\ Finalized(calls[c]) = 1

\* C6: when BeginTx fails, TxWithOpts returns the BeginTx error unchanged,
\* the unit of work is never invoked, neither Commit nor Rollback is called
\* and the transaction stays Unopened.
C6_BeginFailureReturned ==
    \A c \in 1..MaxCalls :
        calls[c].beginErr \in BeginErrs =>
            /\ ~calls[c].fnInvoked
            /\ calls[c].fnOutcome = "none"
            /\ Finalized(calls[c]) = 0
            /\ calls[c].tx = "Unopened"
            /\ calls[c].status # "panicked"
            /\ calls[c].status = "returned" => calls[c].ret = calls[c].beginErr

C6_Witness ==
    \E c \in 1..MaxCalls :
        /\ calls[c].status = "returned"
        /\ calls[c].beginErr = "ErrBegin"
        /\ calls[c].ret = "ErrBegin"

\* the TxKey bindings of a context
TxBindings(ctx) == {i \in 1..Len(ctx) : ctx[i].key = TxKey}

\* C8: FromCtxOr returns the fallback for a context no transaction was bound
\* to, and for the context of a Tx made by AcquireWithOpts, or one derived
\* from it, the handle of that transaction: the innermost one when
\* acquisitions are nested.
C8_FromCtxOrResolves ==
    /\ resolved # NoLookup =>
            resolved.got = IF resolved.call = 0 THEN DB
                           ELSE TxHandle(resolved.call)
    /\ \A i \in 1..Len(stack) :
            stack[i].pc \in {"fn", "defer"} =>
                /\ FromCtxOr(stack[i].txctx, DB) = TxHandle(stack[i].id)
                /\ FromCtxOr(WithValue(stack[i].txctx, DataSourceKey, DataSource), DB)
                        = TxHandle(stack[i].id)
    /\ \A ctx \in RootCtxs : FromCtxOr(ctx, DB) = DB

C8_Witness ==
    /\ resolved.call = 2
    /\ Cardinality(TxBindings(resolved.ctx)) = 2
    /\ resolved.ctx[Len(resolved.ctx)].key = DataSourceKey
    /\ resolved.got = TxHandle(2)

\* C13: when the context passed to TxWithOpts is canceled while the unit of
\* work is running and a statement of it returns after that, the statement
\* fails with the cancellation error, the finalize step still runs, and the
\* finalization it attempts is a Rollback, not a Commit.
C13_CancelRollsBack ==
    \A c \in 1..MaxCalls :
        (calls[c].canceledInFn /\ calls[c].stmtAfterCancel # "none") =>
            /\ calls[c].stmtAfterCancel = Canceled
            /\ calls[c].commits = 0
            /\ calls[c].status = "returned" => calls[c].rollbacks = 1

\* C13, amended: when the context passed to TxWithOpts is canceled while the
\* unit of work is running, a statement that returns after that fails with
\* the cancellation error, the finalize step still runs, once, and what it
\* attempts follows the result of the unit of work: a Rollback and no Commit
\* when it returns a non-nil error (the statement's error included), a
\* Commit and no Rollback when it returns nil.
C13_CancelFinalizesByResult ==
    \A c \in 1..MaxCalls :
        calls[c].canceledInFn =>
            /\ calls[c].stmtAfterCancel \in {"none", Canceled}
            /\ Finalized(calls[c]) <= 1
            /\ calls[c].status # "panicked"
            /\ calls[c].status = "returned" => Finalized(calls[c]) = 1
            /\ calls[c].fnOutcome = "err" =>
                    /\ calls[c].commits = 0
                    /\ calls[c].status = "returned" => calls[c].rollbacks = 1
            /\ calls[c].fnOutcome = "nil" =>
                    /\ calls[c].rollbacks = 0
                    /\ calls[c].status = "returned" => calls[c].commits = 1

C13_Witness ==
    \E c \in 1..MaxCalls :
        /\ calls[c].canceledInFn
        /\ calls[c].stmtAfterCancel = Canceled
        /\ calls[c].fnOutcome = "err"
        /\ calls[c].fnErr = Canceled
        /\ calls[c].status = "returned"
        /\ calls[c].rollbacks = 1
        /\ calls[c].commits = 0

====
